---- MODULE Spec2Model ----
(***************************************************************************)
(* Model of beetsplug/ftseparator.py: the tokenizer split_on_feat, the     *)
(* field normalizer ft_separate, the `ftseparator` subcommand and the      *)
(* import-stage hook `imported`.                                           *)
(*                                                                         *)
(* A Python str is a sequence of one-character strings, so that strip,     *)
(* the regular-expression split and join are computed character by         *)
(* character.                                                              *)
(***************************************************************************)
EXTENDS Integers, Sequences, FiniteSets, TLC

VARIABLES
    config,        \* self.config: the user's values and the set_args overlay
    import_stages, \* TRUE iff self.imported is registered as an import stage
    should_write,  \* the host's global "write" setting, ui.should_write()
    db,            \* the library database: item id -> stored fields
    handler,       \* the handler that runs: "func", "imported" or "none"
    pc,            \* "idle", "loop", "done" or "raised"
    argv,          \* the flags on the command line of the current command
    queue,         \* ids of the items the running handler iterates over
    items,         \* the in-memory item objects of the running handler
    loaded,        \* the fields those objects had when the handler got them
    k,             \* position in queue of the next item of the loop
    locals,        \* separator, album, sort, write of the running handler
    calls,         \* calls made on items by the running handler, in order
    log,           \* self._log.info lines of the running handler
    fn,            \* tokenizer harness: input, separator, parts, joined
    it             \* normalizer harness: one item, arguments, history

vars == <<config, import_stages, should_write, db, handler, pc, argv, queue, items,
          loaded, k, locals, calls, log, fn, it>>

pluginVars == <<config, import_stages, should_write, db, handler, pc, argv, queue,
                items, loaded, k, locals, calls, log>>

-----------------------------------------------------------------------------
(* Bounds *)

\* longest input string of the tokenizer harness
MaxLen == 6
\* number of items in the library
MaxItems == 2
\* number of successive ft_separate applications in the normalizer harness
MaxApply == 2

-----------------------------------------------------------------------------
(* Python str primitives *)

\* characters for which str.isspace() holds and which \s matches
Whitespace == {" ", "\t"}

\* re.IGNORECASE: case folding of the letters the conjunction words use
Lower(c) ==
    CASE c = "A" -> "a" [] c = "C" -> "c" [] c = "D" -> "d" [] c = "E" -> "e"
      [] c = "F" -> "f" [] c = "G" -> "g" [] c = "H" -> "h" [] c = "I" -> "i"
      [] c = "N" -> "n" [] c = "O" -> "o" [] c = "R" -> "r" [] c = "S" -> "s"
      [] c = "T" -> "t" [] c = "U" -> "u" [] c = "V" -> "v" [] c = "W" -> "w"
      [] OTHER -> c

\* str.strip(): drop leading and trailing whitespace
RECURSIVE lstrip(_)
lstrip(s) ==
    IF s # <<>> /\ Head(s) \in Whitespace THEN lstrip(Tail(s)) ELSE s

RECURSIVE rstrip(_)
rstrip(s) ==
    IF s # <<>> /\ s[Len(s)] \in Whitespace
    THEN rstrip(SubSeq(s, 1, Len(s) - 1))
    ELSE s

strip(s) == rstrip(lstrip(s))

\* separator.join(parts)
RECURSIVE join(_, _)
join(separator, parts) ==
    IF parts = <<>> THEN <<>>
    ELSE IF Len(parts) = 1 THEN parts[1]
    ELSE parts[1] \o separator \o join(separator, Tail(parts))

-----------------------------------------------------------------------------
(* The host's conjunction pattern, beets.plugins.feat_tokens():            *)
(*   (?<=\s)(?:ft|featuring|feat|feat\.|ft\.|with|vs|and|con|&)(?=\s)      *)
(* compiled with re.IGNORECASE.                                            *)

feat_words ==
    << <<"f","t">>,
       <<"f","e","a","t","u","r","i","n","g">>,
       <<"f","e","a","t">>,
       <<"f","e","a","t",".">>,
       <<"f","t",".">>,
       <<"w","i","t","h">>,
       <<"v","s">>,
       <<"a","n","d">>,
       <<"c","o","n">>,
       <<"&">> >>

\* does alternative w match s at position i, followed by whitespace?
word_at(s, i, w) ==
    /\ i + Len(w) <= Len(s)
    /\ \A j \in 1..Len(w) : Lower(s[i + j - 1]) = w[j]
    /\ s[i + Len(w)] \in Whitespace

\* length of the pattern's match starting at position i of s, 0 if none:
\* look-behind, then the first alternative that the look-ahead accepts
feat_tokens(s, i) ==
    IF i > 1 /\ s[i - 1] \in Whitespace
       /\ \E n \in 1..Len(feat_words) : word_at(s, i, feat_words[n])
    THEN LET n == CHOOSE n \in 1..Len(feat_words) :
                     /\ word_at(s, i, feat_words[n])
                     /\ \A m \in 1..(n - 1) : ~word_at(s, i, feat_words[m])
         IN  Len(feat_words[n])
    ELSE 0

\* regex.split(s) for a pattern without capturing groups: the text between
\* successive non-overlapping matches, scanning left to right from i with
\* the current piece starting at from
RECURSIVE regex_split(_, _, _)
regex_split(s, i, from) ==
    IF i > Len(s) THEN << SubSeq(s, from, Len(s)) >>
    ELSE LET n == feat_tokens(s, i) IN
         IF n > 0
         THEN << SubSeq(s, from, i - 1) >> \o regex_split(s, i + n, i + n)
         ELSE regex_split(s, i + 1, from)

\* the variant that splits on the first match only
split_on_first_feat(artist) ==
    LET hits == {i \in 1..Len(artist) : feat_tokens(artist, i) > 0} IN
    IF hits = {} THEN << strip(artist) >>
    ELSE LET i == CHOOSE i \in hits : \A j \in hits : i <= j IN
         << strip(SubSeq(artist, 1, i - 1)),
            strip(SubSeq(artist, i + feat_tokens(artist, i), Len(artist))) >>

\* the variant that does not strip the parts
split_on_feat_unstripped(artist) == regex_split(artist, 1, 1)

\* split_on_feat(artist): [s.strip() for s in regex.split(artist)]
split_on_feat(artist) ==
    LET parts == regex_split(artist, 1, 1) IN
    [n \in 1..Len(parts) |-> strip(parts[n])]

-----------------------------------------------------------------------------
(* Tokenizer harness: split_on_feat and join on every short string *)

Alphabet == {" ", "&", "f", "T"}

Strings == UNION {[1..n -> Alphabet] : n \in 0..MaxLen}

Scenarios ==
    { <<"A"," ","f","e","a","t","."," ","B">>,
      <<"S","o","l","o"," ","A","r","t","i","s","t">>,
      <<"X"," ","f","t","."," ","Y">>,
      <<"a"," ","&","\t","W","i","t","h"," ","b"," ","a","n","d"," ","c">>,
      <<"f","t"," ","a"," ","v","s"," ","b"," ","c","o","n">> }

Separators ==
    { <<";"," ">>, <<" ","/"," ">>, <<>>, <<" ">>, <<"&">>, <<" ","f">> }

NoPlugin ==
    /\ config = [user |-> << >>, args |-> << >>]
    /\ import_stages = FALSE
    /\ should_write = FALSE
    /\ db = << >>
    /\ handler = "none"
    /\ pc = "idle"
    /\ argv = << >>
    /\ queue = << >>
    /\ items = << >>
    /\ loaded = << >>
    /\ k = 1
    /\ locals = << >>
    /\ calls = << >>
    /\ log = << >>

NoItem == [state |-> "unused"]

NoInput == [state |-> "unused"]

InitSplit ==
    /\ NoPlugin
    /\ it = NoItem
    /\ \E s \in Strings \cup Scenarios, sep \in Separators :
           fn = [state |-> "input", s |-> s, sep |-> sep,
                 parts |-> <<>>, joined |-> <<>>]

SplitOnFeat ==
    /\ fn.state = "input"
    /\ LET parts == split_on_feat(fn.s) IN
       fn' = [fn EXCEPT !.state = "split", !.parts = parts,
                        !.joined = join(fn.sep, parts)]
    /\ UNCHANGED <<pluginVars, it>>

NextSplit == SplitOnFeat

SpecSplit == InitSplit /\ [][NextSplit]_vars

-----------------------------------------------------------------------------
(* FtSeparatorPlugin.ft_separate *)

Fields == {"artist", "albumartist", "artist_sort"}

\* the variant that assigns the rejoined string unconditionally
ft_field_always_assign(name, value, separator) ==
    LET stripped == strip(value)
        list == join(separator, split_on_feat(stripped))
    IN  [value |-> list,
         log |-> IF list # stripped
                 THEN << [field |-> name, old |-> value, new |-> list] >>
                 ELSE << >>]

\* the variant that logs unconditionally
ft_field_always_log(name, value, separator) ==
    LET stripped == strip(value)
        list == join(separator, split_on_feat(stripped))
    IN  [value |-> IF list # stripped THEN list ELSE value,
         log |-> << [field |-> name, old |-> value, new |-> list] >>]

\* one field's block of ft_separate: strip, split, join, and if the result
\* differs from the stripped value, log (old, unstripped, value -> new value)
\* and assign
ft_field(name, value, separator) ==
    LET stripped == strip(value)
        list == join(separator, split_on_feat(stripped))
    IN  IF list # stripped
        THEN [value |-> list,
              log |-> << [field |-> name, old |-> value, new |-> list] >>]
        ELSE [value |-> value, log |-> << >>]

\* the variant that converts the album artist whatever the flag says
ft_separate_any_album(item, separator, convert_album_artist, convert_sort_artist) ==
    LET a == ft_field("artist", item.artist, separator)
        b == IF item.albumartist # << >>
             THEN ft_field("albumartist", item.albumartist, separator)
             ELSE [value |-> item.albumartist, log |-> << >>]
        c == IF convert_sort_artist /\ item.artist_sort # << >>
             THEN ft_field("artist_sort", item.artist_sort, separator)
             ELSE [value |-> item.artist_sort, log |-> << >>]
    IN  [item |-> [artist |-> a.value, albumartist |-> b.value,
                   artist_sort |-> c.value],
         log |-> a.log \o b.log \o c.log]

\* ft_separate(item, separator, convert_album_artist, convert_sort_artist):
\* the item after the call and the log lines the call emits
ft_separate(item, separator, convert_album_artist, convert_sort_artist) ==
    LET a == ft_field("artist", item.artist, separator)
        b == IF convert_album_artist /\ item.albumartist # << >>
             THEN ft_field("albumartist", item.albumartist, separator)
             ELSE [value |-> item.albumartist, log |-> << >>]
        c == IF convert_sort_artist /\ item.artist_sort # << >>
             THEN ft_field("artist_sort", item.artist_sort, separator)
             ELSE [value |-> item.artist_sort, log |-> << >>]
    IN  [item |-> [artist |-> a.value, albumartist |-> b.value,
                   artist_sort |-> c.value],
         log |-> a.log \o b.log \o c.log]

-----------------------------------------------------------------------------
(* Normalizer harness: ft_separate applied repeatedly to one item *)

FieldPool ==
    { << >>,
      <<"S","o","l","o">>,
      <<" ","x"," ">>,
      <<"x"," ","&"," ","y">>,
      <<" ","x"," ","F","t","."," ","y">>,
      <<"a"," ","f","t","."," ","b"," ","&"," ","c">>,
      <<"t"," ","&"," ","t"," ","f">> }

InitItem ==
    /\ NoPlugin
    /\ fn = NoInput
    /\ \E a \in FieldPool, b \in FieldPool, c \in FieldPool,
          sep \in Separators, album \in BOOLEAN, sort \in BOOLEAN :
         LET item == [artist |-> a, albumartist |-> b, artist_sort |-> c] IN
         it = [state |-> "item", item |-> item, sep |-> sep, album |-> album,
               sort |-> sort, n |-> 0, orig |-> item, pre |-> item,
               first |-> item, log |-> << >>]

FtSeparate ==
    /\ it.state = "item"
    /\ it.n < MaxApply
    /\ LET r == ft_separate(it.item, it.sep, it.album, it.sort) IN
       it' = [it EXCEPT !.item = r.item, !.pre = it.item, !.log = r.log,
                        !.n = it.n + 1,
                        !.first = IF it.n = 0 THEN r.item ELSE it.first]
    /\ UNCHANGED <<pluginVars, fn>>

NextItem == FtSeparate

SpecItem == InitItem /\ [][NextItem]_vars

-----------------------------------------------------------------------------
(* The plugin: construction, the `ftseparator` command, the import stage *)

\* None is the empty tuple and a value v is <<v>>
None == << >>

Some(v) == << v >>

DefaultSeparator == << ";", " " >>

\* what the user's configuration can give for `separator`
ConfigSeparators == { DefaultSeparator, << " ", "/", " " >> }

\* what the user can give with -s
ArgSeparators == { << " ", "/", " " >> }

\* the library the host holds, by item id
ItemPool ==
    << [artist |-> <<"x"," ","&"," ","y">>,
        albumartist |-> <<"x"," ","&"," ","y">>,
        artist_sort |-> << >>],
       [artist |-> <<"S","o","l","o">>,
        albumartist |-> << >>,
        artist_sort |-> <<"y"," ","f","t","."," ","x">>],
       [artist |-> <<" ","S","o","l","o"," ">>,
        albumartist |-> <<"S","o","l","o">>,
        artist_sort |-> <<" ","x">>] >>

Library == [id \in 1..MaxItems |-> ItemPool[((id - 1) % Len(ItemPool)) + 1]]

\* what a query or an import task can enumerate: any items of the library,
\* in the library's order
Queues ==
    { q \in UNION {[1..n -> 1..MaxItems] : n \in 0..MaxItems} :
        \A i \in DOMAIN q, j \in DOMAIN q : i < j => q[i] < q[j] }

NoArgs == [separator |-> None, albumartist |-> FALSE, sortartist |-> FALSE]

NoOverlay ==
    [separator |-> None, convert_album_artist |-> None,
     convert_sort_artist |-> None]

NoLocals ==
    [separator |-> << >>, album |-> FALSE, sort |-> FALSE, write |-> FALSE]

\* __init__: config.add puts the defaults below whatever the user
\* configured, so each option has a value; the import stage is registered
\* iff `auto` is on
Init ==
    /\ \E user \in [separator : ConfigSeparators,
                    convert_album_artist : BOOLEAN,
                    convert_sort_artist : BOOLEAN,
                    auto : BOOLEAN] :
         /\ config = [user |-> user, args |-> NoOverlay]
         /\ import_stages = user.auto
    /\ should_write \in BOOLEAN
    /\ db = Library
    /\ handler = "none"
    /\ pc = "idle"
    /\ argv = NoArgs
    /\ queue = << >>
    /\ items = << >>
    /\ loaded = << >>
    /\ k = 1
    /\ locals = NoLocals
    /\ calls = << >>
    /\ log = << >>
    /\ fn = NoInput
    /\ it = NoItem

\* self.config[key].get(): the overlay's value if it has one, else the
\* user's or the default
get(cfg, key) ==
    IF cfg.args[key] # None THEN cfg.args[key][1] ELSE cfg.user[key]

\* the parser without a default for -s
parse_args_no_default(args) ==
    [separator |-> args.separator,
     convert_album_artist |-> IF args.albumartist THEN Some(TRUE) ELSE None,
     convert_sort_artist |-> IF args.sortartist THEN Some(TRUE) ELSE None]

\* the option parser of the subcommand: -s has the default "; ", the two
\* store_true flags have the default None
parse_args(args) ==
    [separator |-> IF args.separator = None THEN Some(DefaultSeparator)
                   ELSE args.separator,
     convert_album_artist |-> IF args.albumartist THEN Some(TRUE) ELSE None,
     convert_sort_artist |-> IF args.sortartist THEN Some(TRUE) ELSE None]

\* self.config.set_args(opts): every option that is not None is overlaid on
\* the configuration view, and stays there
set_args(cfg, opts) ==
    [cfg EXCEPT !.args = [key \in DOMAIN opts |->
                            IF opts[key] # None THEN opts[key] ELSE @[key]]]

\* a call on an item and how it ended: "ok" or "raised"
Call(op, id, result) == [op |-> op, item |-> id, result |-> result]

Result(outcome, raising) == IF outcome = raising THEN "raised" ELSE "ok"

\* func, up to the loop: overlay the options, read the three settings and
\* the host's write setting, resolve the query
func_start ==
    /\ pc = "idle"
    /\ \E s \in {None} \cup {Some(x) : x \in ArgSeparators},
          a \in BOOLEAN, r \in BOOLEAN, q \in Queues :
         LET args == [separator |-> s, albumartist |-> a, sortartist |-> r]
             cfg == set_args(config, parse_args(args))
         IN  /\ argv' = args
             /\ config' = cfg
             /\ locals' = [separator |-> get(cfg, "separator"),
                           album |-> get(cfg, "convert_album_artist"),
                           sort |-> get(cfg, "convert_sort_artist"),
                           write |-> should_write]
             /\ queue' = q
             /\ items' = [n \in 1..Len(q) |-> db[q[n]]]
             /\ loaded' = [n \in 1..Len(q) |-> db[q[n]]]
             /\ pc' = IF q = << >> THEN "done" ELSE "loop"
    /\ handler' = "func"
    /\ k' = 1
    /\ calls' = << >>
    /\ log' = << >>
    /\ UNCHANGED <<import_stages, should_write, db, fn, it>>

\* the variant that calls try_write whatever the write setting was
func_item_always_write ==
    /\ pc = "loop"
    /\ handler = "func"
    /\ \E outcome \in {"ok", "store raises", "try_write raises"} :
         /\ LET id == queue[k]
                r == ft_separate(items[k], locals.separator, locals.album,
                                 locals.sort)
            IN  /\ items' = [items EXCEPT ![k] = r.item]
                /\ log' = log \o r.log
                /\ calls' = calls \o << Call("ft_separate", id, "ok"),
                                        Call("store", id,
                                             Result(outcome, "store raises")) >>
                                  \o IF outcome # "store raises"
                                     THEN << Call("try_write", id,
                                                  Result(outcome,
                                                         "try_write raises")) >>
                                     ELSE << >>
                /\ db' = IF outcome = "store raises" THEN db
                         ELSE [db EXCEPT ![id] = r.item]
         /\ pc' = IF outcome # "ok" THEN "raised"
                  ELSE IF k = Len(queue) THEN "done" ELSE "loop"
         /\ k' = IF outcome = "ok" THEN k + 1 ELSE k
    /\ UNCHANGED <<config, import_stages, should_write, handler, argv, queue,
                   loaded, locals, fn, it>>

\* the variant that catches what store and try_write raise and goes on
func_item_catching ==
    /\ pc = "loop"
    /\ handler = "func"
    /\ \E outcome \in {"ok", "store raises", "try_write raises"} :
         /\ outcome = "try_write raises" => locals.write
         /\ LET id == queue[k]
                r == ft_separate(items[k], locals.separator, locals.album,
                                 locals.sort)
            IN  /\ items' = [items EXCEPT ![k] = r.item]
                /\ log' = log \o r.log
                /\ calls' = calls \o << Call("ft_separate", id, "ok"),
                                        Call("store", id,
                                             Result(outcome, "store raises")) >>
                                  \o IF outcome # "store raises" /\ locals.write
                                     THEN << Call("try_write", id,
                                                  Result(outcome,
                                                         "try_write raises")) >>
                                     ELSE << >>
                /\ db' = IF outcome = "store raises" THEN db
                         ELSE [db EXCEPT ![id] = r.item]
         /\ pc' = IF k = Len(queue) THEN "done" ELSE "loop"
         /\ k' = k + 1
    /\ UNCHANGED <<config, import_stages, should_write, handler, argv, queue,
                   loaded, locals, fn, it>>

\* one iteration of func's loop: ft_separate, store, and try_write if the
\* write setting was on; store or try_write may raise, which ends func
func_item ==
    /\ pc = "loop"
    /\ handler = "func"
    /\ \E outcome \in {"ok", "store raises", "try_write raises"} :
         /\ outcome = "try_write raises" => locals.write
         /\ LET id == queue[k]
                r == ft_separate(items[k], locals.separator, locals.album,
                                 locals.sort)
            IN  /\ items' = [items EXCEPT ![k] = r.item]
                /\ log' = log \o r.log
                /\ calls' = calls \o << Call("ft_separate", id, "ok"),
                                        Call("store", id,
                                             Result(outcome, "store raises")) >>
                                  \o IF outcome # "store raises" /\ locals.write
                                     THEN << Call("try_write", id,
                                                  Result(outcome,
                                                         "try_write raises")) >>
                                     ELSE << >>
                /\ db' = IF outcome = "store raises" THEN db
                         ELSE [db EXCEPT ![id] = r.item]
         /\ pc' = IF outcome # "ok" THEN "raised"
                  ELSE IF k = Len(queue) THEN "done" ELSE "loop"
         /\ k' = IF outcome = "ok" THEN k + 1 ELSE k
    /\ UNCHANGED <<config, import_stages, should_write, handler, argv, queue,
                   loaded, locals, fn, it>>

\* imported, up to the loop: read the three settings, enumerate the task
imported_start ==
    /\ import_stages
    /\ pc = "idle"
    /\ \E q \in Queues :
         /\ queue' = q
         /\ items' = [n \in 1..Len(q) |-> db[q[n]]]
         /\ loaded' = [n \in 1..Len(q) |-> db[q[n]]]
         /\ pc' = IF q = << >> THEN "done" ELSE "loop"
    /\ locals' = [separator |-> get(config, "separator"),
                  album |-> get(config, "convert_album_artist"),
                  sort |-> get(config, "convert_sort_artist"),
                  write |-> FALSE]
    /\ handler' = "imported"
    /\ argv' = NoArgs
    /\ k' = 1
    /\ calls' = << >>
    /\ log' = << >>
    /\ UNCHANGED <<config, import_stages, should_write, db, fn, it>>

\* the variant that stores an item only if ft_separate changed it
imported_item_store_if_changed ==
    /\ pc = "loop"
    /\ handler = "imported"
    /\ \E outcome \in {"ok", "store raises"} :
         /\ LET id == queue[k]
                r == ft_separate(items[k], locals.separator, locals.album,
                                 locals.sort)
            IN  /\ outcome = "store raises" => r.item # items[k]
                /\ items' = [items EXCEPT ![k] = r.item]
                /\ log' = log \o r.log
                /\ calls' = calls \o << Call("ft_separate", id, "ok") >>
                                  \o IF r.item # items[k]
                                     THEN << Call("store", id,
                                                  Result(outcome,
                                                         "store raises")) >>
                                     ELSE << >>
                /\ db' = IF outcome = "store raises" THEN db
                         ELSE [db EXCEPT ![id] = r.item]
         /\ pc' = IF outcome # "ok" THEN "raised"
                  ELSE IF k = Len(queue) THEN "done" ELSE "loop"
         /\ k' = IF outcome = "ok" THEN k + 1 ELSE k
    /\ UNCHANGED <<config, import_stages, should_write, handler, argv, queue,
                   loaded, locals, fn, it>>

\* one iteration of imported's loop: ft_separate, store; store may raise,
\* which ends imported
imported_item ==
    /\ pc = "loop"
    /\ handler = "imported"
    /\ \E outcome \in {"ok", "store raises"} :
         /\ LET id == queue[k]
                r == ft_separate(items[k], locals.separator, locals.album,
                                 locals.sort)
            IN  /\ items' = [items EXCEPT ![k] = r.item]
                /\ log' = log \o r.log
                /\ calls' = calls \o << Call("ft_separate", id, "ok"),
                                        Call("store", id,
                                             Result(outcome, "store raises")) >>
                /\ db' = IF outcome = "store raises" THEN db
                         ELSE [db EXCEPT ![id] = r.item]
         /\ pc' = IF outcome # "ok" THEN "raised"
                  ELSE IF k = Len(queue) THEN "done" ELSE "loop"
         /\ k' = IF outcome = "ok" THEN k + 1 ELSE k
    /\ UNCHANGED <<config, import_stages, should_write, handler, argv, queue,
                   loaded, locals, fn, it>>

\* func or imported returns normally: its locals and item objects are gone
handler_returns ==
    /\ pc = "done"
    /\ pc' = "idle"
    /\ argv' = NoArgs
    /\ queue' = << >>
    /\ items' = << >>
    /\ loaded' = << >>
    /\ k' = 1
    /\ locals' = NoLocals
    /\ calls' = << >>
    /\ log' = << >>
    /\ handler' = "none"
    /\ UNCHANGED <<config, import_stages, should_write, db, fn, it>>

Next ==
    \/ func_start
    \/ func_item
    \/ imported_start
    \/ imported_item
    \/ handler_returns

Spec == Init /\ [][Next]_vars

-----------------------------------------------------------------------------
(* Vocabulary of the properties *)

IsSeq(x) == DOMAIN x = 1..Len(x)

FeatWordSet == {feat_words[n] : n \in 1..Len(feat_words)}

FeatChars == UNION {{w[j] : j \in 1..Len(w)} : w \in FeatWordSet}

Folded(s) == [j \in 1..Len(s) |-> Lower(s[j])]

\* the positions of s where a conjunction word stands between two
\* whitespace characters
Hits(s) ==
    {i \in 2..Len(s) :
        /\ s[i - 1] \in Whitespace
        /\ \E w \in FeatWordSet :
              /\ i + Len(w) <= Len(s)
              /\ s[i + Len(w)] \in Whitespace
              /\ Folded(SubSeq(s, i, i + Len(w) - 1)) = w}

\* the last position of the whitespace-free word that starts at i
WordEnd(s, i) ==
    CHOOSE e \in i..Len(s) :
        /\ \A j \in i..e : s[j] \notin Whitespace
        /\ e = Len(s) \/ s[e + 1] \in Whitespace

\* s without its leading and trailing whitespace
TrimOf(s) ==
    LET solid == {i \in 1..Len(s) : s[i] \notin Whitespace} IN
    IF solid = {} THEN << >>
    ELSE SubSeq(s, CHOOSE i \in solid : \A j \in solid : i <= j,
                   CHOOSE i \in solid : \A j \in solid : i >= j)

-----------------------------------------------------------------------------
(* Properties of ft_separate, on the normalizer harness *)

Applied == it.state = "item" /\ it.n >= 1

Logged(f) == \E i \in DOMAIN it.log : it.log[i].field = f

\* the fields the last call worked on
Processed(f) ==
    \/ f = "artist"
    \/ f = "albumartist" /\ it.album /\ it.pre.albumartist # << >>
    \/ f = "artist_sort" /\ it.sort /\ it.pre.artist_sort # << >>

Rejoined(f) == join(it.sep, split_on_feat(strip(it.pre[f])))

\* C2: the album-artist field is unchanged and not logged when
\* convert_album_artist is false or the field is empty, the sort-artist field
\* likewise; the artist field is processed whatever the flags; a field's new
\* value is what the call gives it when the other two fields are empty and
\* the other flags off, so it depends on its own old value and the separator.
C2_FieldSelection ==
    Applied =>
        /\ (~it.album \/ it.pre.albumartist = << >>) =>
               it.item.albumartist = it.pre.albumartist /\ ~Logged("albumartist")
        /\ (~it.sort \/ it.pre.artist_sort = << >>) =>
               it.item.artist_sort = it.pre.artist_sort /\ ~Logged("artist_sort")
        /\ it.item.artist = IF Rejoined("artist") # strip(it.pre.artist)
                            THEN Rejoined("artist") ELSE it.pre.artist
        /\ it.item.artist
             = ft_separate([artist |-> it.pre.artist, albumartist |-> << >>,
                            artist_sort |-> << >>],
                           it.sep, FALSE, FALSE).item.artist
        /\ it.item.albumartist
             = ft_separate([artist |-> << >>,
                            albumartist |-> it.pre.albumartist,
                            artist_sort |-> << >>],
                           it.sep, it.album, FALSE).item.albumartist
        /\ it.item.artist_sort
             = ft_separate([artist |-> << >>, albumartist |-> << >>,
                            artist_sort |-> it.pre.artist_sort],
                           it.sep, FALSE, it.sort).item.artist_sort

\* album artist with a token but its flag off, artist and sort artist changed
C2_AlbumFlagOff ==
    /\ Applied
    /\ ~it.album
    /\ Hits(it.pre.albumartist) # {}
    /\ it.item.artist # it.pre.artist
    /\ it.sort
    /\ it.item.artist_sort # it.pre.artist_sort

\* is the separator's text a conjunction word?
IsFeatWord(sep) == Folded(sep) \in FeatWordSet

\* a non-empty separator none of whose non-whitespace characters occurs in a
\* conjunction word
PlainSeparator(sep) ==
    /\ sep # << >>
    /\ \A j \in 1..Len(sep) :
          sep[j] \in Whitespace \/ Lower(sep[j]) \notin FeatChars

\* C3, as stated: with a separator that is not itself a conjunction word, a
\* second application of ft_separate leaves what the first one left.
C3_Idempotent ==
    (it.state = "item" /\ it.n >= 2 /\ ~IsFeatWord(it.sep)) =>
        it.item = it.first

\* C3, amended: with a non-empty separator none of whose non-whitespace
\* characters occurs in a conjunction word, a second application of
\* ft_separate leaves what the first one left, and a field the first
\* application rewrote holds no match of the conjunction pattern.
C3_IdempotentPlainSeparator ==
    (it.state = "item" /\ PlainSeparator(it.sep)) =>
        /\ it.n >= 2 => it.item = it.first
        /\ it.n >= 1 =>
              \A f \in Fields : it.first[f] # it.orig[f] => Hits(it.first[f]) = {}

\* applied twice with a plain separator, all three fields rewritten the
\* first time
C3_TwiceAfterRewrite ==
    /\ it.state = "item"
    /\ it.n = 2
    /\ PlainSeparator(it.sep)
    /\ \A f \in Fields : it.first[f] # it.orig[f]

\* C5, as stated: a processed field without a conjunction token holds the
\* trimmed form of its original value after the call.
C5_TrimmedForm ==
    Applied =>
        \A f \in Fields :
            (Processed(f) /\ Hits(it.pre[f]) = {}) =>
                it.item[f] = TrimOf(it.pre[f])

\* C5, amended: a processed field without a conjunction token holds its
\* original value after the call, leading and trailing whitespace included;
\* what equals the trimmed form is the rejoined string the call compares.
C5_LeftUnchanged ==
    Applied =>
        \A f \in Fields :
            (Processed(f) /\ Hits(it.pre[f]) = {}) =>
                /\ it.item[f] = it.pre[f]
                /\ Rejoined(f) = TrimOf(it.pre[f])

\* a processed field without a token and with whitespace around it
C5_PaddedSolo ==
    /\ Applied
    /\ Hits(it.pre.artist) = {}
    /\ it.pre.artist # TrimOf(it.pre.artist)
    /\ it.album
    /\ Hits(it.pre.albumartist) = {}
    /\ it.pre.albumartist # TrimOf(it.pre.albumartist)

\* C9: a field has a log line iff the call changed its value; the line shows
\* the old and the new value; a field without a conjunction token is neither
\* logged nor assigned; a processed field whose rejoined form differs from
\* its trimmed original is logged and overwritten with the rejoined form.
C9_LogMatchesMutation ==
    Applied =>
        /\ \A f \in Fields :
              /\ Logged(f) <=> it.item[f] # it.pre[f]
              /\ Hits(TrimOf(it.pre[f])) = {} =>
                     ~Logged(f) /\ it.item[f] = it.pre[f]
              /\ (Processed(f) /\ Rejoined(f) # TrimOf(it.pre[f])) =>
                     Logged(f) /\ it.item[f] = Rejoined(f)
        /\ \A i \in DOMAIN it.log, j \in DOMAIN it.log :
              it.log[i].field = it.log[j].field => i = j
        /\ \A i \in DOMAIN it.log :
              /\ it.log[i].old = it.pre[it.log[i].field]
              /\ it.log[i].new = it.item[it.log[i].field]

\* one call that rewrites and logs the artist and leaves a processed,
\* token-free album artist alone
C9_OneLoggedOneSilent ==
    /\ Applied
    /\ Logged("artist")
    /\ it.item.artist # it.pre.artist
    /\ Processed("albumartist")
    /\ ~Logged("albumartist")
    /\ Len(it.log) = 1

-----------------------------------------------------------------------------
(* Properties of the command and of the import stage *)

Running == pc # "idle"

\* the calls a loop makes on the items of q when nothing raises
RECURSIVE CallsFor(_, _)
CallsFor(q, write) ==
    IF q = << >> THEN << >>
    ELSE << Call("ft_separate", q[1], "ok"), Call("store", q[1], "ok") >>
         \o (IF write THEN << Call("try_write", q[1], "ok") >> ELSE << >>)
         \o CallsFor(Tail(q), write)

\* the calls of an iteration on item id in which store or try_write raised
RaisingCalls(id, write) ==
    { << Call("ft_separate", id, "ok"), Call("store", id, "raised") >> }
    \cup IF write
         THEN { << Call("ft_separate", id, "ok"), Call("store", id, "ok"),
                   Call("try_write", id, "raised") >> }
         ELSE { }

\* the calls made so far are those of the loop over queue with try_write iff
\* write: complete iterations for the items before position k, and, if the
\* handler ended by an exception, the iteration on item k up to the raise
InOrder(write) ==
    /\ k \in 1..(Len(queue) + 1)
    /\ pc \in {"loop", "done"} => calls = CallsFor(SubSeq(queue, 1, k - 1), write)
    /\ pc = "loop" => k <= Len(queue)
    /\ pc = "done" => k = Len(queue) + 1
    /\ pc = "raised" =>
          /\ k <= Len(queue)
          /\ \E tail \in RaisingCalls(queue[k], write) :
                calls = CallsFor(SubSeq(queue, 1, k - 1), write) \o tail

\* the n-th item of the queue as ft_separate leaves it
Normalized(n) ==
    ft_separate(loaded[n], locals.separator, locals.album, locals.sort).item

\* C1: the command passes to ft_separate the -s value if -s is on the command
\* line, and otherwise the separator the user configured.
C1_SeparatorFromFlagOrConfig ==
    (handler = "func" /\ Running) =>
        locals.separator = IF argv.separator # None THEN argv.separator[1]
                           ELSE config.user.separator

\* C6: one invocation of imported normalizes and then stores every item of
\* the task exactly once, in the task's order, whether or not a field changed,
\* and never calls try_write, whatever the host's write setting.
C6_ImportStoresEachOnce ==
    (handler = "imported" /\ Running) =>
        /\ InOrder(FALSE)
        /\ \A i \in DOMAIN calls : calls[i].op # "try_write"
        /\ locals.separator = get(config, "separator")
        /\ locals.album = get(config, "convert_album_artist")
        /\ locals.sort = get(config, "convert_sort_artist")
        /\ \A n \in 1..(k - 1) :
              items[n] = Normalized(n) /\ db[queue[n]] = Normalized(n)

\* an import of two or more items, with the write setting on, that has
\* stored an item it changed and an item it did not change
C6_ImportDone ==
    /\ handler = "imported"
    /\ pc = "done"
    /\ Len(queue) >= 2
    /\ should_write
    /\ \E n \in DOMAIN items : items[n] = loaded[n]
    /\ \E n \in DOMAIN items : items[n] # loaded[n]

\* C7: for each item of the query, in order, the command calls ft_separate,
\* then store, then try_write iff the write setting read before the loop is
\* on, all before the next item, and store exactly once per item.
C7_CommandOrder ==
    (handler = "func" /\ Running) =>
        /\ locals.write = should_write
        /\ InOrder(should_write)
        /\ \A n \in 1..(k - 1) :
              items[n] = Normalized(n) /\ db[queue[n]] = Normalized(n)

\* a command over two or more items with the write setting on, completed
C7_CommandDoneWriting ==
    /\ handler = "func"
    /\ pc = "done"
    /\ Len(queue) >= 2
    /\ should_write
    /\ \E n \in DOMAIN items : items[n] # loaded[n]

Settings == {"separator", "convert_album_artist", "convert_sort_artist"}

StartOf(h) == pc = "idle" /\ pc' # "idle" /\ handler' = h

C10_NoRollbackNoRetry ==
    /\ \A i \in DOMAIN calls :
          calls[i].result = "raised" => pc = "raised" /\ i = Len(calls)
    /\ pc = "raised" =>
          /\ k \in 1..Len(queue)
          /\ calls # << >>
          /\ LET last == calls[Len(calls)] IN
                /\ last.result = "raised"
                /\ last.op \in {"store", "try_write"}
                /\ last.item = queue[k]
                /\ Cardinality({i \in DOMAIN calls :
                                   calls[i].op = last.op
                                   /\ calls[i].item = last.item}) = 1
                /\ last.op = "store" => db[queue[k]] = loaded[k]
                /\ last.op = "try_write" => db[queue[k]] = Normalized(k)
          /\ \A n \in 1..(k - 1) : db[queue[n]] = Normalized(n)
          /\ \A i \in DOMAIN calls :
                calls[i].item \in {queue[n] : n \in 1..k}
          /\ ~ENABLED Next

\* store raised on the second item of a command: the first item is stored
\* changed, the second is changed in memory only
C10_StoreRaisedOnSecond ==
    /\ pc = "raised"
    /\ handler = "func"
    /\ k = 2
    /\ calls[Len(calls)].op = "store"
    /\ db[queue[1]] # loaded[1]
    /\ items[2] # loaded[2]
    /\ db[queue[2]] = loaded[2]

====
